---- MODULE Spec2Model ----
(***************************************************************************)
(* boost::math::big_whole (include/boost/math/big_whole_core.hpp): an      *)
(* arbitrary-length whole number kept as an auto_ptr to a valarray of      *)
(* words, least-significant word first.                                    *)
(*                                                                         *)
(* A valarray is a sequence (word k of the code is element k+1), a word is *)
(* an integer in 0..WordMax, the free store is heap/live, and every        *)
(* big_whole object o holds the pointer x_[o] (NULL or an address).        *)
(* The word width and the width of uintmax_t are scaled down (2 and 4 bits *)
(* for 32 and 64), keeping their ratio.                                    *)
(***************************************************************************)
EXTENDS Integers, Sequences, FiniteSets, TLC

\* ---------------------------------------------------------------- bounds
\* Bit indices offered to the operations of the one-object specification.
MaxBit == 4
\* Bit indices offered to the operations of the two-object specification.
OwnMaxBit == 3
\* Longest index list offered to reconfigure( index_type const & ).
MaxIdxLen == 1
\* Longest mask offered to reconfigure( mask_type const & ).
MaxMaskLen == 3

\* ------------------------------------------------------- program constants
\* limits_type::digits, the bits of a word_type (scaled).
digits == 2
\* std::numeric_limits<uintmax_t>::digits (scaled).
uintmax_digits == 4

NULL == 0

RECURSIVE Pow2(_)
Pow2(n) == IF n = 0 THEN 1 ELSE 2 * Pow2(n - 1)

\* limits_type::max() and limits_type::min()
WordMax == Pow2(digits) - 1
WordMin == 0

\* ------------------------------------------------- unsigned bit arithmetic
Bit(w, j) == (w \div Pow2(j)) % 2

RECURSIVE FromBits(_, _, _)
FromBits(f, j, n) == IF j = n THEN 0 ELSE f[j] * Pow2(j) + FromBits(f, j + 1, n)

\* a & b, a | b, a ^ b on unsigned values of n bits
AndN(a, b, n) == FromBits([j \in 0..(n - 1) |-> Bit(a, j) * Bit(b, j)], 0, n)
OrN(a, b, n) == FromBits([j \in 0..(n - 1) |-> IF Bit(a, j) + Bit(b, j) > 0 THEN 1 ELSE 0], 0, n)
XorN(a, b, n) == FromBits([j \in 0..(n - 1) |-> (Bit(a, j) + Bit(b, j)) % 2], 0, n)
\* ~a on a word
NotW(a) == WordMax - a
\* 1u << j on a word
Shl1(j) == Pow2(j) % Pow2(digits)

AndW(a, b) == AndN(a, b, digits)
OrW(a, b) == OrN(a, b, digits)
XorW(a, b) == XorN(a, b, digits)

\* ------------------------------------------------------- valarray helpers
\* Every valarray is built as a tuple, by Append, SubSeq and \o alone.
\* valarray<T>( value, n )
RECURSIVE Fill(_, _)
Fill(value, n) == IF n = 0 THEN <<>> ELSE Append(Fill(value, n - 1), value)

\* The valarray s with element k (from 1) replaced by w.
SetAt(s, k, w) == SubSeq(s, 1, k - 1) \o <<w>> \o SubSeq(s, k + 1, Len(s))

\* valarray + scalar and scalar - valarray, element by element
RECURSIVE PlusScalar(_, _)
PlusScalar(ids, d) ==
    IF Len(ids) = 0 THEN <<>> ELSE <<ids[1] + d>> \o PlusScalar(Tail(ids), d)

RECURSIVE ScalarMinus(_, _)
ScalarMinus(c, ids) ==
    IF Len(ids) = 0 THEN <<>> ELSE <<c - ids[1]>> \o ScalarMinus(c, Tail(ids))

RECURSIVE SeqMax(_)
SeqMax(s) == IF Len(s) = 1 THEN s[1]
             ELSE LET m == SeqMax(Tail(s)) IN IF s[1] > m THEN s[1] ELSE m

\* mask[ indices ] = true
RECURSIVE MaskSet(_, _, _)
MaskSet(mask, ids, k) == IF k > Len(ids) THEN mask
                         ELSE MaskSet(SetAt(mask, ids[k] + 1, TRUE), ids, k + 1)

\* ------------------------------------------------ static helper functions
words_for_bits(bits) == (bits \div digits) + (IF bits % digits # 0 THEN 1 ELSE 0)

RECURSIVE uintmax_loop(_, _, _, _)
uintmax_loop(v, temp, words_used, s) ==
    IF v # 0 /\ words_used < s
    THEN uintmax_loop(v \div Pow2(digits),
                      SetAt(temp, words_used + 1, v % Pow2(digits)),
                      words_used + 1, s)
    ELSE IF words_used # 0 THEN SubSeq(temp, 1, words_used) ELSE <<>>

uintmax_to_va(v) ==
    IF uintmax_digits > digits
    THEN LET s == words_for_bits(uintmax_digits)
         IN uintmax_loop(v, Fill(0, s), 0, s)
    ELSE Fill(v % Pow2(digits), 1)

RECURSIVE bit_vector_loop(_, _, _)
bit_vector_loop(b, temp, i) ==
    IF i >= Len(b) THEN temp
    ELSE IF b[i + 1]
         THEN LET wi == i \div digits
                  wj == i % digits
              IN bit_vector_loop(b, SetAt(temp, wi + 1, OrW(temp[wi + 1], Shl1(wj))),
                                 i + 1)
         ELSE bit_vector_loop(b, temp, i + 1)

\* bit_vector_to_va with the zero words at the top taken off the result.
bit_vector_to_va_trimmed(b) ==
    LET RECURSIVE trim(_)
        trim(v) == IF v = <<>> \/ v[Len(v)] # 0 THEN v
                   ELSE trim(SubSeq(v, 1, Len(v) - 1))
    IN IF Len(b) # 0
       THEN trim(bit_vector_loop(b, Fill(0, words_for_bits(Len(b))), 0))
       ELSE <<>>

bit_vector_to_va(b) ==
    IF Len(b) # 0
    THEN bit_vector_loop(b, Fill(0, words_for_bits(Len(b))), 0)
    ELSE <<>>

bit_indices_to_va(i) ==
    bit_vector_to_va(IF Len(i) # 0
                     THEN MaskSet(Fill(FALSE, SeqMax(i) + 1), i, 1)
                     ELSE <<>>)

RECURSIVE wlength_loop(_, _)
wlength_loop(v, i) == IF i # 0 /\ v[i] = 0 THEN wlength_loop(v, i - 1) ELSE i

wlength(v) == wlength_loop(v, Len(v))

RECURSIVE blength_loop(_, _)
blength_loop(w, i) ==
    IF i # 0 /\ AndW(w, Shl1(i - 1)) = 0 THEN blength_loop(w, i - 1) ELSE i

\* blength with the scan started one bit too low.
blength_low(w) == blength_loop(w, digits - 1)

blength(w) == blength_loop(w, digits)

\* ------------------------------------------- const member functions
\* A big_whole as its const members see it: r.has is x_.get() # NULL and r.w
\* is *x_ (<<>> when there is none).
NoBuffer == [has |-> FALSE, w |-> <<>>]
Buffer(v) == [has |-> TRUE, w |-> v]

RECURSIVE to_bit_indices_loop(_, _, _)
to_bit_indices_loop(v, k, temp2) ==
    IF k >= Len(v) * digits THEN temp2
    ELSE LET i == k \div digits
             j == k % digits
         IN to_bit_indices_loop(v, k + 1,
                IF AndW(Shl1(j), v[i + 1]) # 0 THEN Append(temp2, k) ELSE temp2)

\* to_bit_indices with the scan started at bit 1.
to_bit_indices_from1(r) ==
    IF r.has /\ Len(r.w) # 0 THEN to_bit_indices_loop(r.w, 1, <<>>) ELSE <<>>

to_bit_indices(r) ==
    IF r.has /\ Len(r.w) # 0 THEN to_bit_indices_loop(r.w, 0, <<>>) ELSE <<>>

to_bit_vector(r) ==
    LET indices == to_bit_indices(r)
    IN IF Len(indices) # 0
       THEN MaskSet(Fill(FALSE, SeqMax(indices) + 1), indices, 1)
       ELSE <<>>

RECURSIVE to_uintmax_loop(_, _, _)
to_uintmax_loop(v, i, temp) ==
    IF i > 0
    THEN to_uintmax_loop(v, i - 1,
             OrN((temp * Pow2(digits)) % Pow2(uintmax_digits), v[i], uintmax_digits))
    ELSE temp

\* to_uintmax with the highest stored word left out.
to_uintmax_short(r) ==
    IF r.has /\ Len(r.w) # 0 THEN to_uintmax_loop(r.w, Len(r.w) - 1, 0) ELSE 0

to_uintmax(r) ==
    IF uintmax_digits > digits
    THEN IF r.has THEN to_uintmax_loop(r.w, Len(r.w), 0) ELSE 0
    ELSE IF r.has /\ Len(r.w) # 0 THEN r.w[1] ELSE 0

length(r) ==
    IF r.has /\ wlength(r.w) # 0
    THEN LET oo == wlength(r.w) - 1
         IN blength(r.w[oo + 1]) + oo * digits
    ELSE 0

any(r) == r.has /\ Len(r.w) # 0 /\ SeqMax(r.w) # 0

none(r) == ~any(r)

test(r, i) ==
    IF r.has
    THEN LET wi == i \div digits
             wj == i % digits
         IN IF Len(r.w) > wi THEN AndW(r.w[wi + 1], Shl1(wj)) # 0 ELSE FALSE
    ELSE FALSE

\* ids[ ids >= lo && ids <= hi ], the masked subset of a valarray
Within(ids, lo, hi) == SelectSeq(ids, LAMBDA e : e >= lo /\ e <= hi)
Below(ids, b) == SelectSeq(ids, LAMBDA e : e < b)
Above(ids, b) == SelectSeq(ids, LAMBDA e : e > b)
\* ids[ ids < b ] in the place of ids[ ids <= b ]
UpToOpen(ids, b) == SelectSeq(ids, LAMBDA e : e < b)
UpTo(ids, b) == SelectSeq(ids, LAMBDA e : e <= b)

tests(r, from0, to0) ==
    LET from == IF from0 > to0 THEN to0 ELSE from0
        to == IF from0 > to0 THEN from0 ELSE to0
        ids == to_bit_indices(r)
        new_ids == Within(ids, from, to)
    IN Buffer(bit_indices_to_va(IF Len(new_ids) # 0
                                THEN PlusScalar(new_ids, 0 - from)
                                ELSE new_ids))

reverse_cap(r, cap) ==
    LET ids == to_bit_indices(r)
        new_ids == UpTo(ids, cap)
    IN Buffer(bit_indices_to_va(ScalarMinus(cap, new_ids)))

reverse(r) == IF any(r) THEN reverse_cap(r, length(r) - 1) ELSE r

\* ------------------------------------------------------------- the state
VARIABLES
    heap,   \* heap[a]: the valarray at address a (<<>> when a is not allocated)
    live,   \* the allocated addresses
    x_,     \* x_[o]: the auto_ptr member of object o, NULL or an address
    last    \* the latest member call: its arguments, the objects before it, its result

vars == <<heap, live, x_, last>>

Objs == {1, 2}
\* The temporary a member function builds (self_type temp( v )).
Tmp == 0
Addr == 1..(Cardinality(Objs) + 1)

\* ---------------------------------------------------- the free store
\* The memory a member function works on: the heap, the objects' pointers and the
\* local temporary's; ret is the address of the latest new, threw says that
\* std::bad_alloc is propagating, wild that a word outside a buffer was touched.
Mem == [heap |-> heap, live |-> live, x |-> (Tmp :> NULL) @@ x_,
        ret |-> NULL, threw |-> FALSE, wild |-> FALSE]

\* new va_type( val )
New(m, val) ==
    LET a == CHOOSE c \in Addr \ m.live : \A b \in Addr \ m.live : c <= b
    IN [m EXCEPT !.heap = SetAt(@, a, val), !.live = @ \cup {a}, !.ret = a]

\* delete p
Delete(m, p) ==
    IF p = NULL THEN m ELSE [m EXCEPT !.heap = SetAt(@, p, <<>>), !.live = @ \ {p}]

Throw(m) == [m EXCEPT !.threw = TRUE]

\* auto_ptr::reset( p ): if p is not the held pointer, delete that and hold p.
ap_reset(m, o, p) ==
    IF m.x[o] # p THEN [Delete(m, m.x[o]) EXCEPT !.x[o] = p] ELSE m

\* auto_ptr::release(): hold nothing (the caller keeps what was held).
ap_release(m, o) == [m EXCEPT !.x[o] = NULL]

\* What the const members of object o see.
RepOf(m, o) ==
    IF m.x[o] = NULL THEN NoBuffer ELSE Buffer(m.heap[m.x[o]])

\* big_whole::big_whole( v ), ( b ), ( i ): x_( new va_type(...) )
construct(m, o, val) == LET m1 == New(m, val) IN [m1 EXCEPT !.x[o] = m1.ret]

\* big_whole::big_whole( other )
copy_construct(m, o, p) ==
    IF m.x[p] # NULL
    THEN LET m1 == New(m, m.heap[m.x[p]]) IN [m1 EXCEPT !.x[o] = m1.ret]
    ELSE [m EXCEPT !.x[o] = NULL]

\* ~big_whole(): the auto_ptr deletes what it holds.
destroy(m, o) == [Delete(m, m.x[o]) EXCEPT !.x[o] = NULL]

\* -------------------------------------------- object-mutating members
\* this is object o, other is object p; f names the allocation that fails
\* ("none": no allocation fails).
swap(m, o, p) ==
    LET temp == m.x[p]
        m1 == ap_release(m, p)
        held == m1.x[o]
        m2 == ap_reset(ap_release(m1, o), p, held)
    IN ap_reset(m2, o, temp)

\* assign that takes the other object's buffer instead of a copy of it.
assign_shallow(m, o, p, f) ==
    IF m.x[p] # NULL
    THEN IF f = "copy" THEN Throw(m) ELSE ap_reset(m, o, m.x[p])
    ELSE ap_reset(m, o, NULL)

assign(m, o, p, f) ==
    IF m.x[p] # NULL
    THEN IF f = "copy" THEN Throw(m)
         ELSE LET m1 == New(m, m.heap[m.x[p]]) IN ap_reset(m1, o, m1.ret)
    ELSE ap_reset(m, o, NULL)

\* The receiver emptied before the temporary is built, not swapped with it after.
reset_then_build(m, o, val, f) ==
    LET m0 == ap_reset(m, o, NULL)
    IN IF f = "ctor" THEN Throw(m0)
       ELSE destroy(swap(construct(m0, Tmp, val), o, Tmp), Tmp)

\* self_type temp( ... ); this->swap( temp ); and temp's destructor
swap_with_temp(m, o, val, f) ==
    IF f = "ctor" THEN Throw(m)
    ELSE destroy(swap(construct(m, Tmp, val), o, Tmp), Tmp)

assign_uintmax(m, o, v, f) == swap_with_temp(m, o, uintmax_to_va(v), f)

reconfigure_mask(m, o, b, f) == swap_with_temp(m, o, bit_vector_to_va(b), f)

reconfigure_indices(m, o, i, f) == swap_with_temp(m, o, bit_indices_to_va(i), f)

reset(m, o) == ap_reset(m, o, NULL)

\* bits_assign with the source's bits left where they are in the source.
bits_assign_unshifted(m, o, from0, to0, p, f) ==
    LET from == IF from0 > to0 THEN to0 ELSE from0
        to == IF from0 > to0 THEN from0 ELSE to0
        t_ids == to_bit_indices(RepOf(m, o))
        v_ids == to_bit_indices(RepOf(m, p))
        new_t_ids == Below(t_ids, from) \o Within(v_ids, from, to) \o Above(t_ids, to)
    IN IF f = "temps" THEN Throw(m)
       ELSE reconfigure_indices(m, o, new_t_ids, f)

bits_assign(m, o, from0, to0, p, f) ==
    LET from == IF from0 > to0 THEN to0 ELSE from0
        to == IF from0 > to0 THEN from0 ELSE to0
        t_ids == to_bit_indices(RepOf(m, o))
        v_ids == to_bit_indices(RepOf(m, p))
        pre_t_ids == Below(t_ids, from)
        new_v_ids == PlusScalar(UpTo(v_ids, to - from), from)
        post_t_ids == Above(t_ids, to)
        new_t_ids == pre_t_ids \o new_v_ids \o post_t_ids
    IN IF f = "temps" THEN Throw(m)
       ELSE reconfigure_indices(m, o, new_t_ids, f)

not_self(m, o, f) ==
    IF any(RepOf(m, o)) THEN ap_reset(m, o, NULL)
    ELSE IF f = "new" THEN Throw(m)
         ELSE LET m1 == New(m, Fill(1, 1)) IN ap_reset(m1, o, m1.ret)

\* ------------------------------------------------------- bit_change
\* ( *v )[ k ], read and written; a word outside the buffer (or of no buffer) is
\* recorded in wild.
Load(m, v, k) ==
    IF v # NULL /\ k < Len(m.heap[v]) THEN m.heap[v][k + 1] ELSE 0

Store(m, v, k, w) ==
    IF v # NULL /\ k < Len(m.heap[v])
    THEN [m EXCEPT !.heap = SetAt(@, v, SetAt(@[v], k + 1, w))]
    ELSE [m EXCEPT !.wild = TRUE]

\* fm = ~( (1u << fj) - 1u ) and tm = ( 1u << tj ) | ( (1u << tj) - 1u )
low_mask(fj) == NotW(Shl1(fj) - 1)
\* tm without bit tj itself.
high_mask_open(tj) == Shl1(tj) - 1

high_mask(tj) == OrW(Shl1(tj), Shl1(tj) - 1)

\* The growth step with a new buffer of top words, one short of top + 1.
grow_short(m, o, top, f) ==
    LET v == m.x[o]
        v_size == IF v # NULL THEN Len(m.heap[v]) ELSE 0
    IN IF f = "grow" THEN Throw(m)
       ELSE LET m1 == New(m, Fill(0, top))
                p == m1.ret
                m2 == IF v # NULL /\ v_size # 0
                      THEN [m1 EXCEPT !.heap = SetAt(@, p,
                               m1.heap[v] \o SubSeq(@[p], v_size + 1, top))]
                      ELSE m1
            IN ap_reset(m2, o, p)

\* The growth step of both bit_change overloads: a zeroed buffer of top + 1
\* words, the old words copied in, then x_.reset.
grow(m, o, top, f) ==
    LET v == m.x[o]
        v_size == IF v # NULL THEN Len(m.heap[v]) ELSE 0
    IN IF f = "grow" THEN Throw(m)
       ELSE LET m1 == New(m, Fill(0, top + 1))
                p == m1.ret
                m2 == IF v # NULL /\ v_size # 0
                      THEN [m1 EXCEPT !.heap = SetAt(@, p,
                               m1.heap[v] \o SubSeq(@[p], v_size + 1, top + 1))]
                      ELSE m1
            IN ap_reset(m2, o, p)

\* The switch with flip_bit done as set_bit.
apply_op_noflip(m, v, v_size, k, msk, op) ==
    CASE op = "reset_bit" -> IF k < v_size
                             THEN Store(m, v, k, AndW(Load(m, v, k), NotW(msk)))
                             ELSE m
      [] OTHER -> Store(m, v, k, OrW(Load(m, v, k), msk))

\* One switch ( op ) on word k with mask msk.
apply_op(m, v, v_size, k, msk, op) ==
    CASE op = "flip_bit" -> Store(m, v, k, XorW(Load(m, v, k), msk))
      [] op = "set_bit" -> Store(m, v, k, OrW(Load(m, v, k), msk))
      [] OTHER -> IF k < v_size
                  THEN Store(m, v, k, AndW(Load(m, v, k), NotW(msk)))
                  ELSE m

\* ( *v )[ slice(start, stop - start, 1) ] = ...
RECURSIVE middle_words(_, _, _, _, _)
middle_words(m, v, k, stop, op) ==
    IF k >= stop THEN m
    ELSE middle_words(
             Store(m, v, k, CASE op = "flip_bit" -> XorW(Load(m, v, k), WordMax)
                              [] op = "set_bit" -> WordMax
                              [] OTHER -> WordMin),
             v, k + 1, stop, op)

bit_change_range(m, o, from0, to0, op, f) ==
    LET from == IF from0 > to0 THEN to0 ELSE from0
        to == IF from0 > to0 THEN from0 ELSE to0
        fi == from \div digits
        fj == from % digits
        ti == to \div digits
        tj == to % digits
        v0 == m.x[o]
        v_size0 == IF v0 # NULL THEN Len(m.heap[v0]) ELSE 0
        fm == low_mask(fj)
        tm == high_mask(tj)
        grows == ti >= v_size0 /\ op # "reset_bit"
        m1 == IF grows THEN grow(m, o, ti, f) ELSE m
        v == m1.x[o]
        v_size == IF grows THEN Len(m1.heap[v]) ELSE v_size0
    IN IF m1.threw THEN m1
       ELSE IF fi = ti
       THEN apply_op(m1, v, v_size, fi, AndW(fm, tm), op)
       ELSE LET m2 == apply_op(m1, v, v_size, fi, fm, op)
                start == fi + 1
                stop == IF v_size < ti THEN v_size ELSE ti
                \* static_cast<va_type>( (*v)[ids] ) allocates a temporary
                m3 == IF stop > start
                      THEN IF op = "flip_bit" /\ f = "mid" THEN Throw(m2)
                           ELSE middle_words(m2, v, start, stop, op)
                      ELSE m2
            IN IF m3.threw THEN m3
               ELSE apply_op(m3, v, v_size, ti, tm, op)

bit_change(m, o, i, op, f) ==
    LET ii == i \div digits
        v0 == m.x[o]
        v_size0 == IF v0 # NULL THEN Len(m.heap[v0]) ELSE 0
        grows == ii >= v_size0 /\ op # "reset_bit"
        m1 == IF grows THEN grow(m, o, ii, f) ELSE m
        v == m1.x[o]
        v_size == IF grows THEN Len(m1.heap[v]) ELSE v_size0
        ij == i % digits
    IN IF m1.threw THEN m1
       ELSE apply_op(m1, v, v_size, ii, Shl1(ij), op)

\* ------------------------------------------------------------ the calls
\* The record of a call of member op on object o, before it runs.
Call(op, o) ==
    [op |-> op, obj |-> o, other |-> 0, from |-> 0, to |-> 0, val |-> FALSE,
     n |-> 0, mask |-> <<>>, idx |-> <<>>, fail |-> "none", threw |-> FALSE,
     wild |-> FALSE, pre |-> [q \in DOMAIN x_ |-> RepOf(Mem, q)],
     ret |-> NoBuffer, retn |-> 0]

\* The call returns (or throws, when f names an allocation it reached) leaving
\* memory m. A call starts when the caller is done with the one before it.
Return(m, rec, f) ==
    /\ last.op = "idle"
    /\ f = "none" \/ m.threw
    /\ heap' = m.heap
    /\ live' = m.live
    /\ x_' = [q \in DOMAIN x_ |-> m.x[q]]
    /\ last' = [rec EXCEPT !.fail = f, !.threw = m.threw, !.wild = m.wild]

\* A const member returns: nothing but the record changes.
Answer(rec) == Return(Mem, rec, "none")

\* { big_whole o( p ); }: object o ends and is built again as a copy of p.
CopyConstruct(o, p) ==
    /\ o # p
    /\ Return(copy_construct(destroy(Mem, o), o, p),
              [Call("copy_construct", o) EXCEPT !.other = p], "none")

Swap(o, p) == Return(swap(Mem, o, p), [Call("swap", o) EXCEPT !.other = p], "none")

Assign(o, p, f) ==
    Return(assign(Mem, o, p, f), [Call("assign", o) EXCEPT !.other = p], f)

\* operator =( rhs ): this->assign( rhs ), *this
OperatorAssign(o, p, f) ==
    Return(assign(Mem, o, p, f), [Call("operator=", o) EXCEPT !.other = p], f)

AssignUintmax(o, v, f) ==
    Return(assign_uintmax(Mem, o, v, f), [Call("assign_uintmax", o) EXCEPT !.n = v], f)

ReconfigureMask(o, b, f) ==
    Return(reconfigure_mask(Mem, o, b, f),
           [Call("reconfigure_mask", o) EXCEPT !.mask = b], f)

ReconfigureIndices(o, i, f) ==
    Return(reconfigure_indices(Mem, o, i, f),
           [Call("reconfigure_indices", o) EXCEPT !.idx = i], f)

Reset(o) == Return(reset(Mem, o), Call("reset_all", o), "none")

ResetBit(o, i) ==
    Return(bit_change(Mem, o, i, "reset_bit", "none"),
           [Call("reset", o) EXCEPT !.from = i, !.to = i], "none")

SetBit(o, i, f) ==
    Return(bit_change(Mem, o, i, "set_bit", f),
           [Call("set", o) EXCEPT !.from = i, !.to = i], f)

FlipBit(o, i, f) ==
    Return(bit_change(Mem, o, i, "flip_bit", f),
           [Call("flip", o) EXCEPT !.from = i, !.to = i], f)

BitAssign(o, i, value, f) ==
    Return(bit_change(Mem, o, i, IF value THEN "set_bit" ELSE "reset_bit", f),
           [Call("bit_assign", o) EXCEPT !.from = i, !.to = i, !.val = value], f)

ResetRange(o, from, to) ==
    Return(bit_change_range(Mem, o, from, to, "reset_bit", "none"),
           [Call("reset_range", o) EXCEPT !.from = from, !.to = to], "none")

SetRange(o, from, to, f) ==
    Return(bit_change_range(Mem, o, from, to, "set_bit", f),
           [Call("set_range", o) EXCEPT !.from = from, !.to = to], f)

FlipRange(o, from, to, f) ==
    Return(bit_change_range(Mem, o, from, to, "flip_bit", f),
           [Call("flip_range", o) EXCEPT !.from = from, !.to = to], f)

BitAssignRange(o, from, to, value, f) ==
    Return(bit_change_range(Mem, o, from, to,
                            IF value THEN "set_bit" ELSE "reset_bit", f),
           [Call("bit_assign_range", o)
                EXCEPT !.from = from, !.to = to, !.val = value], f)

BitsAssign(o, from, to, p, f) ==
    Return(bits_assign(Mem, o, from, to, p, f),
           [Call("bits_assign", o) EXCEPT !.from = from, !.to = to, !.other = p], f)

NotSelf(o, f) == Return(not_self(Mem, o, f), Call("not_self", o), f)

ToUintmax(o) ==
    Answer([Call("to_uintmax", o) EXCEPT !.retn = to_uintmax(RepOf(Mem, o))])

\* big_whole( v.to_bit_indices() ) and big_whole( v.to_bit_vector() )
FromBitIndices(o) ==
    Answer([Call("from_bit_indices", o) EXCEPT
               !.ret = Buffer(bit_indices_to_va(to_bit_indices(RepOf(Mem, o))))])

FromBitVector(o) ==
    Answer([Call("from_bit_vector", o) EXCEPT
               !.ret = Buffer(bit_vector_to_va(to_bit_vector(RepOf(Mem, o))))])

Tests(o, from, to) ==
    Answer([Call("tests", o) EXCEPT
               !.from = from, !.to = to, !.ret = tests(RepOf(Mem, o), from, to)])

ReverseCap(o, cap) ==
    Answer([Call("reverse_cap", o) EXCEPT
               !.from = cap, !.ret = reverse_cap(RepOf(Mem, o), cap)])

Reverse(o) == Answer([Call("reverse", o) EXCEPT !.ret = reverse(RepOf(Mem, o))])

\* The caller is done with the call: the temporary it returned, or the exception
\* it threw, ends.
Continue ==
    /\ last.op # "idle"
    /\ last' = Call("idle", 0)
    /\ UNCHANGED <<heap, live, x_>>

\* --------------------------------------------------------- the inputs
RECURSIVE MasksOfSize(_)
MasksOfSize(n) ==
    IF n = 0 THEN {<<>>}
    ELSE {Append(b, e) : b \in MasksOfSize(n - 1), e \in BOOLEAN}

Masks(N) == UNION {MasksOfSize(n) : n \in 0..N}

\* Index lists hold each index once, in any order.
RECURSIVE IndexListsOfSize(_, _)
IndexListsOfSize(n, B) ==
    IF n = 0 THEN {<<>>}
    ELSE UNION {{Append(l, e) : e \in (0..B) \ {l[k] : k \in 1..Len(l)}} :
                   l \in IndexListsOfSize(n - 1, B)}

IndexLists(B) == UNION {IndexListsOfSize(n, B) : n \in 0..MaxIdxLen}

Uintmaxes == 0..(Pow2(uintmax_digits) - 1)

\* ------------------------------------------------ one object, every member
Init ==
    /\ heap = Fill(<<>>, Cardinality(Addr))
    /\ live = {}
    /\ x_ = [o \in {1} |-> NULL]
    /\ last = [op |-> "idle", obj |-> 0, other |-> 0, from |-> 0, to |-> 0,
               val |-> FALSE, n |-> 0, mask |-> <<>>, idx |-> <<>>,
               fail |-> "none", threw |-> FALSE, wild |-> FALSE,
               pre |-> [o \in {1} |-> NoBuffer], ret |-> NoBuffer, retn |-> 0]

Next ==
    \/ Continue
    \/ Swap(1, 1)
    \/ \E f \in {"none", "copy"} : Assign(1, 1, f)
    \/ \E f \in {"none", "copy"} : OperatorAssign(1, 1, f)
    \/ \E v \in Uintmaxes, f \in {"none", "ctor"} : AssignUintmax(1, v, f)
    \/ \E b \in Masks(MaxMaskLen), f \in {"none", "ctor"} : ReconfigureMask(1, b, f)
    \/ \E l \in IndexLists(MaxBit), f \in {"none", "ctor"} : ReconfigureIndices(1, l, f)
    \/ Reset(1)
    \/ \E i \in 0..MaxBit : ResetBit(1, i)
    \/ \E i \in 0..MaxBit, f \in {"none", "grow"} : SetBit(1, i, f)
    \/ \E i \in 0..MaxBit, f \in {"none", "grow"} : FlipBit(1, i, f)
    \/ \E i \in 0..MaxBit, value \in BOOLEAN, f \in {"none", "grow"} :
           BitAssign(1, i, value, f)
    \/ \E i, j \in 0..MaxBit : ResetRange(1, i, j)
    \/ \E i, j \in 0..MaxBit, f \in {"none", "grow"} : SetRange(1, i, j, f)
    \/ \E i, j \in 0..MaxBit, f \in {"none", "grow", "mid"} : FlipRange(1, i, j, f)
    \/ \E i, j \in 0..MaxBit, value \in BOOLEAN, f \in {"none", "grow"} :
           BitAssignRange(1, i, j, value, f)
    \/ \E i, j \in 0..MaxBit, f \in {"none", "temps", "ctor"} : BitsAssign(1, i, j, 1, f)
    \/ \E f \in {"none", "new"} : NotSelf(1, f)
    \/ ToUintmax(1)
    \/ FromBitIndices(1)
    \/ FromBitVector(1)
    \/ \E i, j \in 0..MaxBit : Tests(1, i, j)
    \/ \E cap \in 0..MaxBit : ReverseCap(1, cap)
    \/ Reverse(1)

Spec == Init /\ [][Next]_vars

\* ------------------------------------- two objects, the members that mutate
InitOwn ==
    /\ heap = Fill(<<>>, Cardinality(Addr))
    /\ live = {}
    /\ x_ = [o \in Objs |-> NULL]
    /\ last = [op |-> "idle", obj |-> 0, other |-> 0, from |-> 0, to |-> 0,
               val |-> FALSE, n |-> 0, mask |-> <<>>, idx |-> <<>>,
               fail |-> "none", threw |-> FALSE, wild |-> FALSE,
               pre |-> [o \in Objs |-> NoBuffer], ret |-> NoBuffer, retn |-> 0]

NextOwn ==
    \/ Continue
    \/ \E o, p \in Objs : CopyConstruct(o, p)
    \/ \E o, p \in Objs : Swap(o, p)
    \/ \E o, p \in Objs, f \in {"none", "copy"} : Assign(o, p, f)
    \/ \E o, p \in Objs, f \in {"none", "copy"} : OperatorAssign(o, p, f)
    \/ \E o \in Objs, v \in 0..(Pow2(OwnMaxBit + 1) - 1) : AssignUintmax(o, v, "none")
    \/ \E o \in Objs : Reset(o)
    \/ \E o \in Objs, i \in 0..OwnMaxBit : ResetBit(o, i)
    \/ \E o \in Objs, i \in 0..OwnMaxBit : SetBit(o, i, "none")
    \/ \E o \in Objs, i \in 0..OwnMaxBit : FlipBit(o, i, "none")
    \/ \E o \in Objs, i, j \in 0..OwnMaxBit : ResetRange(o, i, j)
    \/ \E o \in Objs, i, j \in 0..OwnMaxBit : SetRange(o, i, j, "none")
    \/ \E o \in Objs, i, j \in 0..OwnMaxBit : FlipRange(o, i, j, "none")
    \/ \E o, p \in Objs, i, j \in 0..OwnMaxBit : BitsAssign(o, i, j, p, "none")
    \/ \E o \in Objs : NotSelf(o, "none")

SpecOwn == InitOwn /\ [][NextOwn]_vars

\* ------------------------------------------------------------ properties
\* The object o as its const members see it, now and before the latest call.
Obj(o) == IF x_[o] = NULL THEN NoBuffer ELSE Buffer(heap[x_[o]])
Pre(o) == last.pre[o]

\* The bit indices the properties look at: past every buffer the bounds allow.
TestBits == 0..((IF MaxBit > uintmax_digits THEN MaxBit ELSE uintmax_digits) + 2 * digits)

\* The indices i with test( i ).
Bits(r) == {i \in TestBits : test(r, i)}

Lo == IF last.from > last.to THEN last.to ELSE last.from
Hi == IF last.from > last.to THEN last.from ELSE last.to

\* A memory holding one object, 1, with the representation r.
MemOf(r) ==
    [heap |-> IF r.has THEN <<r.w>> \o Fill(<<>>, Cardinality(Addr) - 1)
              ELSE Fill(<<>>, Cardinality(Addr)),
     live |-> IF r.has THEN {1} ELSE {},
     x |-> (Tmp :> NULL) @@ (1 :> IF r.has THEN 1 ELSE NULL),
     ret |-> NULL, threw |-> FALSE, wild |-> FALSE]

\* C1: in every reachable state, of every object: length() is 0 exactly when any()
\* is false, and a length L > 0 has test(L - 1) true and test(i) false for all
\* i >= L; with no buffer, an empty one, or one ending in zero words alike.
C1_CanonicalLength ==
    \A o \in DOMAIN x_ :
        LET r == Obj(o)
            L == length(r)
        IN /\ (L = 0) <=> ~any(r)
           /\ L > 0 => /\ test(r, L - 1)
                       /\ \A i \in TestBits : i >= L => ~test(r, i)

\* A call has left a non-zero value in a buffer whose top word is zero.
C1_Witness ==
    /\ last.op \in {"reset", "reset_range", "flip", "flip_range"}
    /\ x_[1] # NULL
    /\ Len(heap[x_[1]]) >= 2
    /\ heap[x_[1]][Len(heap[x_[1]])] = 0
    /\ length(Obj(1)) > 0

\* The single-bit form of op applied to each index of order in turn.
RECURSIVE ApplyEach(_, _, _, _)
ApplyEach(m, order, k, op) ==
    IF k > Len(order) THEN m
    ELSE ApplyEach(bit_change(m, 1, order[k], op, "none"), order, k + 1, op)

RECURSIVE Perms(_)
Perms(S) ==
    IF S = {} THEN {<<>>}
    ELSE UNION {{<<e>> \o q : q \in Perms(S \ {e})} : e \in S}

RECURSIVE Ascending(_, _)
Ascending(lo, hi) == IF lo > hi THEN <<>> ELSE <<lo>> \o Ascending(lo + 1, hi)

RECURSIVE Descending(_, _)
Descending(lo, hi) == IF lo > hi THEN <<>> ELSE <<hi>> \o Descending(lo, hi - 1)

\* Ranges of up to MaxPerm indices are tried in every order, longer ones in
\* ascending and in descending order.
MaxPerm == 3

Orders(lo, hi) ==
    IF hi - lo + 1 <= MaxPerm THEN Perms(lo..hi)
    ELSE {Ascending(lo, hi), Descending(lo, hi)}

BitOpOf(name) ==
    CASE name \in {"set", "set_range"} -> "set_bit"
      [] name \in {"flip", "flip_range"} -> "flip_bit"
      [] OTHER -> "reset_bit"

\* C2: after set(from,to), reset(from,to) or flip(from,to), with the endpoints in
\* either order, test(i) is for every i what it is after the single-bit form
\* applied once to each index of [min, max], in any order.
C2_RangeIsIteratedBit ==
    (last.op \in {"set_range", "reset_range", "flip_range"} /\ ~last.threw) =>
        \A order \in Orders(Lo, Hi) :
            Bits(Obj(last.obj)) =
                Bits(RepOf(ApplyEach(MemOf(Pre(last.obj)), order, 1, BitOpOf(last.op)), 1))

\* flip(from,to) with from > to, over whole words strictly between the end words,
\* has grown a buffer shorter than the range.
C2_Witness ==
    /\ last.op = "flip_range"
    /\ ~last.threw
    /\ last.from > last.to
    /\ (Hi \div digits) - (Lo \div digits) >= 2
    /\ Pre(last.obj).has
    /\ Len(Pre(last.obj).w) = 1
    /\ Pre(last.obj).w[1] # 0

\* C3: set(i) leaves test(i) true, reset(i) leaves it false, flip(i) negates it
\* and a second flip(i) restores it; test(j) is unchanged for every j # i.
C3_SingleBit ==
    (last.op \in {"set", "reset", "flip"} /\ ~last.threw) =>
        LET i == last.from
            was == Bits(Pre(last.obj))
            now == Bits(Obj(last.obj))
            again == Bits(RepOf(bit_change(Mem, last.obj, i, "flip_bit", "none"),
                                last.obj))
        IN /\ now \ {i} = was \ {i}
           /\ last.op = "set" => i \in now
           /\ last.op = "reset" => i \notin now
           /\ last.op = "flip" => /\ (i \in now) <=> (i \notin was)
                                  /\ again = was

\* flip(i) of a bit beyond the buffer has set it.
C3_Witness ==
    /\ last.op = "flip"
    /\ ~last.threw
    /\ Pre(last.obj).has
    /\ last.from \div digits >= Len(Pre(last.obj).w)
    /\ Pre(last.obj).w # <<>>
    /\ test(Obj(last.obj), last.from)

\* C4: after r.bits_assign(from, to, s), with lo and hi the lesser and the greater
\* of from and to: for lo <= i <= hi, r.test(i) is what s.test(i - lo) was before
\* the call, and for every other i, r.test(i) is unchanged; so no bit of s above
\* hi - lo has an effect. A source s that is another object is itself unchanged.
C4_BitsAssign ==
    (last.op = "bits_assign" /\ ~last.threw) =>
        LET r == last.obj
            s == last.other
            was == Bits(Pre(r))
            src == Bits(Pre(s))
            now == Bits(Obj(r))
        IN /\ \A i \in TestBits :
                  (i \in now) <=> IF Lo <= i /\ i <= Hi THEN (i - Lo) \in src
                                                         ELSE i \in was
           /\ s # r => Obj(s) = Pre(s)

\* bits_assign with from > to, from another object that has a bit above hi - lo and
\* one within it, into a receiver with a bit below lo and one above hi.
C4_Witness ==
    /\ last.op = "bits_assign"
    /\ ~last.threw
    /\ last.other # last.obj
    /\ last.from > last.to
    /\ Lo > 0
    /\ \E i \in Bits(Pre(last.other)) : i > Hi - Lo
    /\ \E i \in Bits(Pre(last.other)) : i <= Hi - Lo
    /\ \E i \in Bits(Pre(last.obj)) : i < Lo
    /\ \E i \in Bits(Pre(last.obj)) : i > Hi

\* C7: no two objects ever hold the same word buffer, and what an object holds is
\* allocated. A call on one object leaves test(i) of every other object unchanged
\* for all i; swap(a, b) leaves a with what b held and b with what a held, and
\* changes no third object; a.assign(a), a = a and a.swap(a) leave a's value
\* unchanged.
C7_Ownership ==
    /\ \A o, p \in DOMAIN x_ : (o # p /\ x_[o] # NULL) => x_[o] # x_[p]
    /\ \A o \in DOMAIN x_ : x_[o] # NULL => x_[o] \in live
    /\ last.op # "idle" =>
           /\ \A q \in DOMAIN x_ :
                  (q # last.obj /\ ~(last.op = "swap" /\ q = last.other)) =>
                      Bits(Obj(q)) = Bits(Pre(q))
           /\ last.op = "swap" => /\ Obj(last.obj) = Pre(last.other)
                                  /\ Obj(last.other) = Pre(last.obj)
           /\ (last.op \in {"assign", "operator=", "swap"} /\ last.other = last.obj) =>
                  Bits(Obj(last.obj)) = Bits(Pre(last.obj))

\* Two objects held buffers with the same non-zero words, and a bit mutation of one
\* of them has made their values differ.
C7_Witness ==
    /\ last.op \in {"set", "reset", "flip", "set_range", "reset_range", "flip_range",
                    "bits_assign", "not_self"}
    /\ ~last.threw
    /\ \E q \in DOMAIN x_ :
           /\ q # last.obj
           /\ Pre(q) = Pre(last.obj)
           /\ any(Pre(q))
           /\ Bits(Obj(q)) # Bits(Obj(last.obj))
           /\ Bits(Obj(q)) = Bits(Pre(q))

\* The indices a valarray of indices holds, and the integer with exactly the bits S.
Elems(ids) == {ids[k] : k \in 1..Len(ids)}

RECURSIVE ValueOf(_)
ValueOf(S) ==
    IF S = {} THEN 0
    ELSE LET i == CHOOSE e \in S : TRUE IN Pow2(i) + ValueOf(S \ {i})

\* C5: of every reachable value v, to_bit_indices() lists the set indices once
\* each in ascending order and to_bit_vector() has length() entries; the value w
\* built from v.to_bit_indices(), and the one built from v.to_bit_vector(), has
\* w.test(i) = v.test(i) for all i, w.to_uintmax() = v.to_uintmax() and
\* w.length() = v.length().
C5_RoundTrip ==
    /\ \A o \in DOMAIN x_ :
           LET v == Obj(o)
               ids == to_bit_indices(v)
           IN /\ \A k \in 1..(Len(ids) - 1) : ids[k] < ids[k + 1]
              /\ Elems(ids) = Bits(v)
              /\ Len(to_bit_vector(v)) = length(v)
    /\ last.op \in {"from_bit_indices", "from_bit_vector"} =>
           LET v == Obj(last.obj)
               w == last.ret
           IN /\ Bits(w) = Bits(v)
              /\ to_uintmax(w) = to_uintmax(v)
              /\ length(w) = length(v)

\* A value of several set bits in a buffer that ends in a zero word has been built
\* again from its bit vector, in a shorter buffer.
C5_Witness ==
    /\ last.op = "from_bit_vector"
    /\ Cardinality(Bits(Obj(last.obj))) >= 2
    /\ Obj(last.obj).w[Len(Obj(last.obj).w)] = 0
    /\ Len(last.ret.w) < Len(Obj(last.obj).w)

\* C6: when an allocation fails in assign (from a value or an integer),
\* reconfigure (from a mask or an index list), bits_assign or not_self, or in the
\* buffer growth of set, flip or bit_assign (of one bit or of a range), the call
\* throws and test(i) of the receiver is for all i what it was before the call.
C6_FailureKeepsValue ==
    (/\ last.fail # "none"
     /\ \/ last.op \in {"assign", "operator=", "assign_uintmax", "reconfigure_mask",
                         "reconfigure_indices", "bits_assign", "not_self"}
        \/ last.fail = "grow") =>
        /\ last.threw
        /\ Bits(Obj(last.obj)) = Bits(Pre(last.obj))
        /\ Obj(last.obj) = Pre(last.obj)

\* The growth of a non-zero one-word buffer for a flip of a range has failed.
C6_Witness ==
    /\ last.op = "flip_range"
    /\ last.fail = "grow"
    /\ last.threw
    /\ any(Pre(last.obj))
    /\ Len(Pre(last.obj).w) = 1
    /\ Lo \div digits = 0

\* C8: of every reachable value, to_uintmax() is the integer whose bits are the
\* set indices below the width of uintmax_t, whatever words are stored at or above
\* that width; and after assign(n) of an integer n, to_uintmax() is n.
C8_ToUintmax ==
    /\ \A o \in DOMAIN x_ :
           to_uintmax(Obj(o)) = ValueOf({i \in Bits(Obj(o)) : i < uintmax_digits})
    /\ last.op = "to_uintmax" =>
           last.retn = ValueOf({i \in Bits(Obj(last.obj)) : i < uintmax_digits})
    /\ (last.op = "assign_uintmax" /\ ~last.threw) =>
           to_uintmax(Obj(last.obj)) = last.n

\* to_uintmax() of a value with a non-zero word above the width of uintmax_t and
\* set bits below it.
C8_Witness ==
    /\ last.op = "to_uintmax"
    /\ Len(Obj(last.obj).w) > uintmax_digits \div digits
    /\ Obj(last.obj).w[Len(Obj(last.obj).w)] # 0
    /\ last.retn # 0

\* C9: reverse(cap) of v returns the value whose set indices are cap - i for the
\* set indices i <= cap of v, and leaves v as it is; reverse(cap) of the result is
\* v restricted to the indices <= cap. reverse() is reverse(length() - 1) of a
\* non-zero v and zero of a zero v.
C9_Reverse ==
    /\ last.op = "reverse_cap" =>
           LET v == Pre(last.obj)
               cap == last.from
               kept == {i \in Bits(v) : i <= cap}
           IN /\ Bits(last.ret) = {cap - i : i \in kept}
              /\ Obj(last.obj) = v
              /\ Bits(reverse_cap(last.ret, cap)) = kept
    /\ last.op = "reverse" =>
           LET v == Pre(last.obj)
           IN /\ Obj(last.obj) = v
              /\ any(v) => /\ Bits(last.ret) = Bits(reverse_cap(v, length(v) - 1))
                           /\ Bits(last.ret) = {length(v) - 1 - i : i \in Bits(v)}
              /\ ~any(v) => Bits(last.ret) = {}

\* reverse(cap) of a value with set bits at cap, below cap and above cap.
C9_Witness ==
    /\ last.op = "reverse_cap"
    /\ last.from \in Bits(Pre(last.obj))
    /\ \E i \in Bits(Pre(last.obj)) : i > last.from
    /\ \E i \in Bits(Pre(last.obj)) : i < last.from
    /\ Bits(last.ret) # Bits(Pre(last.obj))

\* The entries of a mask that are true, as bit indices.
TrueAt(b) == {i \in 0..(Len(b) - 1) : b[i + 1]}

\* C10, as the specification states it: the value reconfigured from a mask b has
\* bit i set exactly where b[i] is true, and its stored word sequence is empty or
\* ends in a non-zero word.
C10_MaskTrimmed ==
    (last.op = "reconfigure_mask" /\ ~last.threw) =>
        LET r == Obj(last.obj)
        IN /\ Bits(r) = TrueAt(last.mask)
           /\ r.w = <<>> \/ r.w[Len(r.w)] # 0

\* C10, as the code has it: the value reconfigured from a mask b of size N has bit
\* i set exactly where b[i] is true and no bit at or above N; it holds a buffer of
\* exactly the words that N bits take, zero words at the top included, and
\* length() is the highest true index plus one (0 when no entry is true).
C10_MaskUntrimmed ==
    (last.op = "reconfigure_mask" /\ ~last.threw) =>
        LET r == Obj(last.obj)
            b == last.mask
            N == Len(b)
        IN /\ Bits(r) = TrueAt(b)
           /\ r.has
           /\ Len(r.w) * digits >= N
           /\ (Len(r.w) - 1) * digits < N
           /\ length(r) = IF TrueAt(b) = {} THEN 0
                          ELSE (CHOOSE i \in TrueAt(b) : \A k \in TrueAt(b) : k <= i) + 1

\* A mask with a true entry and whose top entries, a whole word of them, are false
\* has been stored with a zero word at the top.
C10_Witness ==
    /\ last.op = "reconfigure_mask"
    /\ ~last.threw
    /\ TrueAt(last.mask) # {}
    /\ Len(Obj(last.obj).w) >= 2
    /\ Obj(last.obj).w[Len(Obj(last.obj).w)] = 0

\* The calls that end in bit_change, and those of them that pass reset_bit.
BitChangeCalls ==
    {"set", "reset", "flip", "bit_assign",
     "set_range", "reset_range", "flip_range", "bit_assign_range"}

PassesReset ==
    \/ last.op \in {"reset", "reset_range"}
    \/ last.op \in {"bit_assign", "bit_assign_range"} /\ ~last.val

\* C11: bit_change, of one index or of a range with the endpoints in either
\* order, from no buffer, an empty buffer or a buffer of k words, reads and writes
\* no word of an absent buffer and no word at or beyond the buffer's size. With
\* set_bit or flip_bit the object then holds a buffer that has highest affected
\* word index + 1 words when the old one was shorter and the old size otherwise;
\* with reset_bit the object has a buffer exactly if it had one, of the old
\* size. Every word outside the affected words is the old word, or zero where
\* there was none.
C11_BitChangeInBounds ==
    last.op \in BitChangeCalls =>
        /\ ~last.wild
        /\ ~last.threw =>
               LET old == Pre(last.obj)
                   now == Obj(last.obj)
                   old_size == Len(old.w)
                   fi == Lo \div digits
                   ti == Hi \div digits
               IN /\ IF PassesReset
                     THEN now.has = old.has /\ Len(now.w) = old_size
                     ELSE /\ now.has
                          /\ Len(now.w) = IF ti >= old_size THEN ti + 1 ELSE old_size
                  /\ \A k \in 0..(Len(now.w) - 1) :
                         (k < fi \/ k > ti \/ (PassesReset /\ k >= old_size)) =>
                             now.w[k + 1] = IF k < old_size THEN old.w[k + 1] ELSE 0

\* reset(from, to) with from > to has cleared bits of a one-word buffer over a
\* range that ends two words beyond it.
C11_Witness ==
    /\ last.op = "reset_range"
    /\ last.from > last.to
    /\ Pre(last.obj).has
    /\ Len(Pre(last.obj).w) = 1
    /\ Lo \div digits = 0
    /\ Hi \div digits = 2
    /\ Obj(last.obj) # Pre(last.obj)

====
